---- MODULE Spec2Model ----
(***************************************************************************)
(* A model of gluamsgpack's encoder (lib.go): the primitive packers, the   *)
(* value dispatcher lmEncode, the container packers lmEncodeArray and      *)
(* lmEncodeMap, the cycle guard markDupe and the driver MsgEncode.         *)
(*                                                                         *)
(* Bytes are the integers 0..255 and a buffer is a sequence of bytes.  A   *)
(* 64-bit integer is kept as its eight big-endian two's-complement bytes,  *)
(* so that every Go conversion (byte(i), uint16(i), uint64(s)) is the      *)
(* truncation it is in the code and no width is lost.                      *)
(***************************************************************************)
EXTENDS Integers, Sequences, FiniteSets, TLC

VARIABLES heap, arg, pc, cur, buf, stack, dupe, ret, err, prev

vars == <<heap, arg, pc, cur, buf, stack, dupe, ret, err, prev>>

(***************************************************************************)
(* Fixed-width integers as big-endian byte sequences.                      *)
(***************************************************************************)

\* The w low bytes (w <= 4) of the integer n, big-endian, two's complement.
BE(n, w) == [j \in 1..w |-> (n \div (256 ^ (w - j))) % 256]

\* int64(n) / uint64(n) of an integer n that fits in 32 bits, sign-extended.
I64(n) == (IF n < 0 THEN <<255, 255, 255, 255>> ELSE <<0, 0, 0, 0>>) \o BE(n, 4)

\* The w low bytes of a 64-bit value: uint8(i), uint16(i), uint32(i).
Low(i, w) == SubSeq(i, 9 - w, 8)

\* Unsigned order of two 64-bit values.
ULt(a, b) == \E j \in 1..8 : a[j] < b[j] /\ \A h \in 1..(j - 1) : a[h] = b[h]

ULe(a, b) == a = b \/ ULt(a, b)

\* Signed order: the unsigned order with the sign bit flipped.
Flip(a) == [a EXCEPT ![1] = (a[1] + 128) % 256]

SLt(a, b) == ULt(Flip(a), Flip(b))

SLe(a, b) == a = b \/ SLt(a, b)

\* Bitwise or of two bytes.
RECURSIVE BitOr(_, _, _)
BitOr(a, b, n) ==
    IF n = 0 THEN 0
    ELSE (IF a % 2 = 1 \/ b % 2 = 1 THEN 1 ELSE 0) + 2 * BitOr(a \div 2, b \div 2, n - 1)

ByteOr(a, b) == BitOr(a, b, 8)

\* math.MinInt8 .. math.MaxUint32 as 64-bit values.
MinInt8 == I64(-128)
MaxInt8 == I64(127)
MinInt16 == I64(-32768)
MaxInt16 == I64(32767)
MinInt32 == I64(-2147483647 - 1)
MaxInt32 == I64(2147483647)
MaxUint8 == I64(255)
MaxUint16 == I64(65535)
MaxUint32 == <<0, 0, 0, 0, 255, 255, 255, 255>>

(***************************************************************************)
(* Primitive packers: each appends to buf and returns the result.          *)
(***************************************************************************)

RawPackMsg(s, b) == b \o s

StrPackMsg(s, b) ==
    LET l == Len(s) IN
    (IF l < 32 THEN Append(b, 160 + l)                 \* 0xa0|byte(l)
     ELSE IF l < 256 THEN b \o <<217, l>>              \* 0xd9
     ELSE IF l < 65536 THEN Append(b, 218) \o BE(l, 2) \* 0xda
     ELSE Append(b, 219) \o BE(l, 4)) \o s             \* 0xdb

BinPackMsg(s, b) ==
    LET l == Len(s) IN
    (IF l < 256 THEN b \o <<196, l>>                   \* 0xc4
     ELSE IF l < 65536 THEN Append(b, 197) \o BE(l, 2) \* 0xc5
     ELSE Append(b, 198) \o BE(l, 4)) \o s             \* 0xc6

SignedPackMsg(i, b) ==
    IF SLt(I64(-32), i) /\ SLt(i, I64(128)) THEN Append(b, Low(i, 1)[1])
    ELSE IF SLe(MinInt8, i) /\ SLe(i, MaxInt8) THEN b \o <<208>> \o Low(i, 1)    \* 0xd0
    ELSE IF SLe(MinInt16, i) /\ SLe(i, MaxInt16) THEN b \o <<209>> \o Low(i, 2)  \* 0xd1
    ELSE IF SLe(MinInt32, i) /\ SLe(i, MaxInt32) THEN b \o <<210>> \o Low(i, 4)  \* 0xd2
    ELSE b \o <<211>> \o i                                                       \* 0xd3

UnsignedPackMsg(u, b) ==
    IF ULt(u, I64(128)) THEN Append(b, Low(u, 1)[1])
    ELSE IF ULe(u, MaxUint8) THEN b \o <<204>> \o Low(u, 1)      \* 0xcc
    ELSE IF ULe(u, MaxUint16) THEN b \o <<205>> \o Low(u, 2)     \* 0xcd
    ELSE IF ULe(u, MaxUint32) THEN b \o <<206>> \o Low(u, 4)     \* 0xce
    ELSE b \o <<207>> \o u                                       \* 0xcf

\* f is math.Float32bits(float32(f)), four bytes.
F32PackMsg(f, b) == b \o <<202>> \o f                            \* 0xca

\* f is math.Float64bits(float64(f)), eight bytes.
F64PackMsg(f, b) == b \o <<203>> \o f                            \* 0xcb

\* A time.Time t is [s |-> Unix() as a 64-bit value, ns |-> Nanosecond()].
Time32PackMsg(t, b) == b \o <<214, 255>> \o Low(t.s, 4)          \* 0xd6, 0xff

\* uint64(ns)<<34: ns < 2^30 fills the 30 high bits of the word.
NsShl34(ns) ==
    <<(ns \div 4194304) % 256, (ns \div 16384) % 256, (ns \div 64) % 256,
      (ns % 64) * 4, 0, 0, 0, 0>>

Time64PackMsg(t, b) ==
    LET hi == NsShl34(t.ns) IN
    b \o <<215, 255>> \o [j \in 1..8 |-> ByteOr(hi[j], t.s[j])]  \* 0xd7, 0xff

Time96PackMsg(t, b) == b \o <<199, 12, 255>> \o BE(t.ns, 4) \o t.s   \* 0xc7

\* s&(-1<<34) != 0: a bit of s above its 34 low bits is set.
HighBitsSet(s) == s[1] # 0 \/ s[2] # 0 \/ s[3] # 0 \/ s[4] \div 4 # 0

\* TimePackMsg testing the nanoseconds before the range of the seconds.
TimePackMsg_NanosFirst(t, b) ==
    IF t.ns # 0 THEN Time64PackMsg(t, b)
    ELSE IF HighBitsSet(t.s) THEN Time96PackMsg(t, b)
    ELSE Time32PackMsg(t, b)

TimePackMsg(t, b) ==
    IF HighBitsSet(t.s) THEN Time96PackMsg(t, b)
    ELSE IF t.ns # 0 THEN Time64PackMsg(t, b)
    ELSE Time32PackMsg(t, b)

\* An Ext x is [x |-> the int8 type code as a byte, data |-> bytes].
ExtPackMsg(x, b) ==
    LET l == Len(x.data) IN
    (IF l = 1 THEN Append(b, 212)                                \* 0xd4
     ELSE IF l = 2 THEN Append(b, 213)                           \* 0xd5
     ELSE IF l = 4 THEN Append(b, 214)                           \* 0xd6
     ELSE IF l = 8 THEN Append(b, 215)                           \* 0xd7
     ELSE IF l = 16 THEN Append(b, 216)                          \* 0xd8
     ELSE IF l <= 255 THEN UnsignedPackMsg(I64(l), Append(b, 199))     \* 0xc7
     ELSE IF l <= 65535 THEN UnsignedPackMsg(I64(l), Append(b, 200))   \* 0xc8
     ELSE UnsignedPackMsg(I64(l), Append(b, 201)))                     \* 0xc9
    \o <<x.x>> \o x.data

(***************************************************************************)
(* Lua values.  k is the Lua type; a table value is a reference into heap. *)
(* An LNumber is a float64: m says whether it is integral (v is then its   *)
(* int64 conversion), or not integral and equal to its float32 conversion  *)
(* (v is Float32bits), or neither (v is Float64bits).  A userdata carries  *)
(* the Go type u of its Value and the value: bytes (v), a table (id), a    *)
(* time (t) or an extension (ext); the markers build it with Metatable nil   *)
(* (lib.go:118-122).                                                       *)
(***************************************************************************)

LNil == [k |-> "nil"]
LBool(b) == [k |-> "boolean", b |-> b]
LInt(i) == [k |-> "number", m |-> "int", v |-> i]
LF32(bits) == [k |-> "number", m |-> "f32", v |-> bits]
LF64(bits) == [k |-> "number", m |-> "f64", v |-> bits]
LString(s) == [k |-> "string", v |-> s]
LTable(id) == [k |-> "table", id |-> id]
LFunction == [k |-> "function"]
LUserData(u, v) == [k |-> "userdata", u |-> u, v |-> v]
LUserTable(u, id) == [k |-> "userdata", u |-> u, id |-> id]
LUserTime(u, t) == [k |-> "userdata", u |-> u, t |-> t]
LUserExt(x) == [k |-> "userdata", u |-> "Ext", ext |-> x]
LUserOther == [k |-> "userdata", u |-> "other"]

\* The Go types of a userdata Value that implement Packer.
PackerTypes ==
    {"Raw", "Str", "Bin", "Signed", "Unsigned", "F32", "F64",
     "Time32", "Time64", "Time96", "Time", "Ext"}

\* Array(nil) / Map(nil): the marker was built without a table (OptTable).
NilTable == 0

(***************************************************************************)
(* Tables.  arr is the array part, hash the entries <<key, value>> of the  *)
(* two Go maps (strdict for string keys, dict for the others), mp the      *)
(* metatable's __msgpack: none, a function returning a fixed value, or a   *)
(* function returning a table it creates on each invocation.               *)
(***************************************************************************)

NoOverride == [k |-> "none"]
Returns(v) == [k |-> "value", r |-> v]
ReturnsNew(elems) == [k |-> "new", e |-> elems]

Tbl(arr, hash, mp) == [arr |-> arr, hash |-> hash, mp |-> mp]

\* ls.GetMetaField(value, "__msgpack")
GetMetaField(h, value) ==
    IF value.k = "table" THEN h[value.id].mp ELSE NoOverride

\* CallOverride reading the result after ls.SetTop(top) dropped it.
CallOverride_ReadAfterSetTop(h, value) == [value |-> LNil, heap |-> h]

\* ls.Call(1, 1) on the override: the value it returns and the heap after it.
CallOverride(h, value) ==
    LET f == GetMetaField(h, value) IN
    IF f.k = "new"
    THEN [value |-> LTable(Len(h) + 1), heap |-> Append(h, Tbl(f.e, {}, NoOverride))]
    ELSE [value |-> f.r, heap |-> h]

\* ls.ObjLen: a string's length, a table's length, 0 for anything else
\* without a __len metamethod.
ObjLen(h, value) ==
    IF value.k = "string" THEN Len(value.v)
    ELSE IF value.k = "table" THEN Len(h[value.id].arr)
    ELSE 0

\* v.RawGetInt(i)
RawGetInt(t, i) == IF i \in 1..Len(t.arr) THEN t.arr[i] ELSE LNil

\* utf8.ValidString
RECURSIVE ValidFrom(_, _)
ValidFrom(s, i) ==
    LET n == Len(s)
        Cont(j) == j <= n /\ s[j] \in 128..191
        In(j, lo, hi) == j <= n /\ s[j] \in lo..hi
    IN  IF i > n THEN TRUE
        ELSE IF s[i] < 128 THEN ValidFrom(s, i + 1)
        ELSE IF s[i] \in 194..223 THEN Cont(i + 1) /\ ValidFrom(s, i + 2)
        ELSE IF s[i] = 224 THEN In(i + 1, 160, 191) /\ Cont(i + 2) /\ ValidFrom(s, i + 3)
        ELSE IF s[i] \in (225..236) \cup (238..239)
             THEN Cont(i + 1) /\ Cont(i + 2) /\ ValidFrom(s, i + 3)
        ELSE IF s[i] = 237 THEN In(i + 1, 128, 159) /\ Cont(i + 2) /\ ValidFrom(s, i + 3)
        ELSE IF s[i] = 240
             THEN In(i + 1, 144, 191) /\ Cont(i + 2) /\ Cont(i + 3) /\ ValidFrom(s, i + 4)
        ELSE IF s[i] \in 241..243
             THEN Cont(i + 1) /\ Cont(i + 2) /\ Cont(i + 3) /\ ValidFrom(s, i + 4)
        ELSE IF s[i] = 244
             THEN In(i + 1, 128, 143) /\ Cont(i + 2) /\ Cont(i + 3) /\ ValidFrom(s, i + 4)
        ELSE FALSE

ValidString(s) == ValidFrom(s, 1)

(***************************************************************************)
(* lmEncode's switch, for the values that are encoded without recursion.   *)
(***************************************************************************)

\* ud.PackMsg(buf) for a userdata whose Value implements Packer.
PackMsg(ud, b) ==
    CASE ud.u = "Raw" -> RawPackMsg(ud.v, b)
      [] ud.u = "Str" -> StrPackMsg(ud.v, b)
      [] ud.u = "Bin" -> BinPackMsg(ud.v, b)
      [] ud.u = "Signed" -> SignedPackMsg(ud.v, b)
      [] ud.u = "Unsigned" -> UnsignedPackMsg(ud.v, b)
      [] ud.u = "F32" -> F32PackMsg(ud.v, b)
      [] ud.u = "F64" -> F64PackMsg(ud.v, b)
      [] ud.u = "Time32" -> Time32PackMsg(ud.t, b)
      [] ud.u = "Time64" -> Time64PackMsg(ud.t, b)
      [] ud.u = "Time96" -> Time96PackMsg(ud.t, b)
      [] ud.u = "Time" -> TimePackMsg(ud.t, b)
      [] ud.u = "Ext" -> ExtPackMsg(ud.ext, b)

\* case *lua.LNilType
EncodeNil(b) == Append(b, 192)                                   \* 0xc0

\* case lua.LBool
EncodeBool(v, b) == IF v THEN Append(b, 194) ELSE Append(b, 195) \* 0xc2, 0xc3

\* case lua.LNumber
EncodeNumber(value, b) ==
    IF value.m = "int" THEN SignedPackMsg(value.v, b)
    ELSE IF value.m = "f32" THEN F32PackMsg(value.v, b)
    ELSE F64PackMsg(value.v, b)

\* case lua.LString
EncodeString(s, b) == IF ValidString(s) THEN StrPackMsg(s, b) ELSE BinPackMsg(s, b)

\* The userdata payloads that are packed directly.
EncodeUserData(ud, b) ==
    CASE ud.u \in PackerTypes -> PackMsg(ud, b)
      [] ud.u \in {"Array", "Map"} -> Append(b, 192)             \* ud == nil
      [] ud.u = "string" -> StrPackMsg(ud.v, b)
      [] ud.u = "[]byte" -> BinPackMsg(ud.v, b)
      [] ud.u = "uint64" -> UnsignedPackMsg(ud.v, b)
      [] ud.u = "int64" -> SignedPackMsg(ud.v, b)
      [] ud.u = "time.Time" -> TimePackMsg(ud.t, b)

\* What lmEncode does with a value that has no override.
IsArray(h, value) ==
    \/ value.k = "table" /\ ObjLen(h, value) # 0
    \/ value.k = "userdata" /\ value.u = "Array" /\ value.id # NilTable

IsMap(h, value) ==
    \/ value.k = "table" /\ ObjLen(h, value) = 0
    \/ value.k = "userdata" /\ value.u = "Map" /\ value.id # NilTable

IsScalar(value) ==
    \/ value.k \in {"nil", "boolean", "number", "string"}
    \/ /\ value.k = "userdata"
       /\ \/ value.u \in PackerTypes \cup {"string", "[]byte", "uint64", "int64", "time.Time"}
          \/ value.u \in {"Array", "Map"} /\ value.id = NilTable

IsUnencodable(value) ==
    \/ value.k = "function"
    \/ value.k = "userdata" /\ value.u = "other"

EncodeScalar(value, b) ==
    CASE value.k = "nil" -> EncodeNil(b)
      [] value.k = "boolean" -> EncodeBool(value.b, b)
      [] value.k = "number" -> EncodeNumber(value, b)
      [] value.k = "string" -> EncodeString(value.v, b)
      [] value.k = "userdata" -> EncodeUserData(value, b)

\* The message of the error raised for an unencodable value.
EncodeError(value) ==
    IF value.k = "userdata" THEN "UserData(other) cannot encode to msgpack"
    ELSE "Cannot encode function"

CycleError == "object contained cycle"

(***************************************************************************)
(* Container headers (lmEncodeArray, lmEncodeMap).                         *)
(***************************************************************************)

ArrayHeader(vlen, b) ==
    IF vlen < 16 THEN Append(b, 144 + vlen)                      \* 0x90|byte(vlen)
    ELSE IF vlen < 65536 THEN Append(b, 220) \o BE(vlen, 2)      \* 0xdc
    ELSE Append(b, 221) \o BE(vlen, 4)                           \* 0xdd

MapHeader(vlen, b) ==
    IF vlen < 16 THEN Append(b, 128 + vlen)                      \* 0x80|byte(vlen)
    ELSE IF vlen < 65536 THEN Append(b, 222) \o BE(vlen, 2)      \* 0xde
    ELSE Append(b, 223) \o BE(vlen, 4)                           \* 0xdf

\* The table a container value is encoded from, and the length lmEncode
\* passes to lmEncodeArray: ls.ObjLen(v), where v is the value switched on.
TableOf(value) == value.id

ArrayLen(h, value) == ObjLen(h, value)

(***************************************************************************)
(* The encoder as a state machine.  pc is where the call stands:           *)
(*   idle      no call made yet                                            *)
(*   lmEncode  lmEncode(cur, buf) is about to run                          *)
(*   iter      the innermost container's loop continues                    *)
(*   returned  MsgEncode pushed its result (ret)                           *)
(*   raised    ls.RaiseError unwound the call (err)                        *)
(*   overflow  the recursion exhausted the goroutine stack                 *)
(* stack holds one frame per lmEncodeArray / lmEncodeMap in progress.      *)
(***************************************************************************)

\* The recursion depth at which the goroutine stack is taken to be exhausted.
MaxDepth == 6

ArrayFrame(id, vlen, b) ==
    [kind |-> "array", tbl |-> id, vlen |-> vlen, i |-> 0, buf |-> b,
     mapbuf |-> <<>>, rest |-> {}, ph |-> "next", pv |-> LNil]

\* mapbuf := make([]byte, 0, 64); vlen := 0
MapFrame(id, h, b) ==
    [kind |-> "map", tbl |-> id, vlen |-> 0, i |-> 0, buf |-> b,
     mapbuf |-> <<>>, rest |-> h[id].hash, ph |-> "next", pv |-> LNil]

Top == stack[Len(stack)]

Pop == SubSeq(stack, 1, Len(stack) - 1)

\* RaiseError handing the buffer built so far to the caller.
RaiseError_PushesPartial(msg) ==
    /\ pc' = "raised"
    /\ err' = msg
    /\ ret' = <<buf>>
    /\ UNCHANGED <<heap, arg, cur, buf, stack, dupe, prev>>

\* ls.RaiseError(msg): the panic unwinds every frame of the call; MsgEncode
\* never reaches ls.Push.  buf and stack keep what the call abandons.
RaiseError(msg) ==
    /\ pc' = "raised"
    /\ err' = msg
    /\ UNCHANGED <<heap, arg, cur, buf, stack, dupe, ret, prev>>

\* lmEncode returns b to its caller: MsgEncode (empty stack), which pushes
\* it, or the loop of the innermost container left on stk.
Return(stk, b) ==
    /\ buf' = b
    /\ IF stk = <<>>
       THEN /\ pc' = "returned"
            /\ ret' = <<b>>
            /\ stack' = stk
            /\ cur' = cur
       ELSE LET n == Len(stk)
                f == stk[n]
            IN  /\ ret' = ret
                /\ CASE f.kind = "array" ->
                          /\ stack' = [stk EXCEPT ![n].buf = b]
                          /\ pc' = "iter"
                          /\ cur' = cur
                     [] f.kind = "map" /\ f.ph = "key" ->
                          /\ stack' = [stk EXCEPT ![n].mapbuf = b, ![n].ph = "val"]
                          /\ pc' = "lmEncode"
                          /\ cur' = f.pv
                     [] f.kind = "map" /\ f.ph = "val" ->
                          /\ stack' = [stk EXCEPT ![n].mapbuf = b, ![n].ph = "next"]
                          /\ pc' = "iter"
                          /\ cur' = cur
    /\ UNCHANGED <<heap, arg, dupe, err, prev>>

\* MsgEncode keeping one cycle guard for all calls.
MsgEncode_SharedDupe(a) ==
    /\ \/ pc = "idle"
       \/ pc \in {"returned", "raised"} /\ prev = <<>>
    /\ prev' = IF pc = "idle" THEN <<>>
               ELSE <<[arg |-> arg, pc |-> pc, ret |-> ret, err |-> err]>>
    /\ arg' = a
    /\ cur' = a
    /\ buf' = <<>>
    /\ stack' = <<>>
    /\ ret' = <<>>
    /\ err' = ""
    /\ pc' = "lmEncode"
    /\ UNCHANGED <<heap, dupe>>

\* MsgEncode up to its call of lmEncode(ls, ls.Get(1), nil, dupe).
MsgEncode(a) ==
    /\ \/ pc = "idle"
       \/ pc \in {"returned", "raised"} /\ prev = <<>>
    /\ prev' = IF pc = "idle" THEN <<>>
               ELSE <<[arg |-> arg, pc |-> pc, ret |-> ret, err |-> err]>>
    /\ arg' = a
    /\ dupe' = {}
    /\ cur' = a
    /\ buf' = <<>>
    /\ stack' = <<>>
    /\ ret' = <<>>
    /\ err' = ""
    /\ pc' = "lmEncode"
    /\ UNCHANGED heap

\* One turn of lmEncode's for loop: value has a __msgpack function.
LmOverride ==
    /\ pc = "lmEncode"
    /\ GetMetaField(heap, cur).k # "none"
    /\ LET r == CallOverride(heap, cur) IN
          /\ cur' = r.value
          /\ heap' = r.heap
    /\ UNCHANGED <<arg, pc, buf, stack, dupe, ret, err, prev>>

\* lmEncode's switch on a value packed without recursion.
LmScalar ==
    /\ pc = "lmEncode"
    /\ GetMetaField(heap, cur).k = "none"
    /\ IsScalar(cur)
    /\ Return(stack, EncodeScalar(cur, buf))

\* lmEncode's two default branches.
LmUnencodable ==
    /\ pc = "lmEncode"
    /\ GetMetaField(heap, cur).k = "none"
    /\ IsUnencodable(cur)
    /\ RaiseError(EncodeError(cur))

\* markDupe forgetting the containers already left: it looks only at the
\* containers still being encoded.
MarkDupe_AncestorsOnly(id, frame) ==
    IF \E i \in 1..Len(stack) : stack[i].tbl = id
    THEN RaiseError(CycleError)
    ELSE IF Len(stack) >= MaxDepth
    THEN /\ pc' = "overflow"
         /\ UNCHANGED <<heap, arg, cur, buf, stack, dupe, ret, err, prev>>
    ELSE /\ dupe' = dupe \cup {id}
         /\ stack' = Append(stack, frame)
         /\ pc' = "iter"
         /\ UNCHANGED <<heap, arg, cur, buf, ret, err, prev>>

\* markDupe(ls, dupe, v) followed by what its caller does when it returns.
MarkDupe(id, frame) ==
    IF id \in dupe
    THEN RaiseError(CycleError)
    ELSE IF Len(stack) >= MaxDepth
    THEN /\ pc' = "overflow"
         /\ UNCHANGED <<heap, arg, cur, buf, stack, dupe, ret, err, prev>>
    ELSE /\ dupe' = dupe \cup {id}
         /\ stack' = Append(stack, frame)
         /\ pc' = "iter"
         /\ UNCHANGED <<heap, arg, cur, buf, ret, err, prev>>

\* lmEncodeArray up to its loop.
LmEncodeArray ==
    /\ pc = "lmEncode"
    /\ GetMetaField(heap, cur).k = "none"
    /\ IsArray(heap, cur)
    /\ LET vlen == ArrayLen(heap, cur) IN
          MarkDupe(TableOf(cur), ArrayFrame(TableOf(cur), vlen, ArrayHeader(vlen, buf)))

\* lmEncodeMap up to v.ForEach.
LmEncodeMap ==
    /\ pc = "lmEncode"
    /\ GetMetaField(heap, cur).k = "none"
    /\ IsMap(heap, cur)
    /\ MarkDupe(TableOf(cur), MapFrame(TableOf(cur), heap, buf))

\* lmEncodeArray's loop: buf = lmEncode(ls, v.RawGetInt(i+1), buf, dupe).
ArrayNext ==
    /\ pc = "iter"
    /\ Top.kind = "array"
    /\ Top.i < Top.vlen
    /\ cur' = RawGetInt(heap[Top.tbl], Top.i + 1)
    /\ buf' = Top.buf
    /\ stack' = [stack EXCEPT ![Len(stack)].i = Top.i + 1]
    /\ pc' = "lmEncode"
    /\ UNCHANGED <<heap, arg, dupe, ret, err, prev>>

\* lmEncodeArray: return buf.
ArrayReturn ==
    /\ pc = "iter"
    /\ Top.kind = "array"
    /\ Top.i = Top.vlen
    /\ Return(Pop, Top.buf)

\* The entries LTable.ForEach may yield next: the array part in index
\* order, then the string keys, then the other keys, each of the two Go
\* maps in the order its range statement happens to produce.
StrEntries(rest) == {e \in rest : e[1].k = "string"}

ForEachNext(t, f) ==
    IF f.i < Len(t.arr) THEN {<<LInt(I64(f.i + 1)), t.arr[f.i + 1]>>}
    ELSE IF StrEntries(f.rest) # {} THEN StrEntries(f.rest)
    ELSE f.rest

\* One call of lmEncodeMap's callback, up to its first lmEncode.
MapNext ==
    /\ pc = "iter"
    /\ Top.kind = "map"
    /\ \E e \in ForEachNext(heap[Top.tbl], Top) :
          /\ cur' = e[1]
          /\ buf' = Top.mapbuf
          /\ stack' = [stack EXCEPT
                          ![Len(stack)].vlen = Top.vlen + 1,
                          ![Len(stack)].i = IF Top.i < Len(heap[Top.tbl].arr)
                                            THEN Top.i + 1 ELSE Top.i,
                          ![Len(stack)].rest = IF Top.i < Len(heap[Top.tbl].arr)
                                               THEN Top.rest ELSE Top.rest \ {e},
                          ![Len(stack)].ph = "key",
                          ![Len(stack)].pv = e[2]]
    /\ pc' = "lmEncode"
    /\ UNCHANGED <<heap, arg, dupe, ret, err, prev>>

\* lmEncodeMap after ForEach: the header, then append(buf, mapbuf...).
MapReturn ==
    /\ pc = "iter"
    /\ Top.kind = "map"
    /\ ForEachNext(heap[Top.tbl], Top) = {}
    /\ Return(Pop, MapHeader(Top.vlen, Top.buf) \o Top.mapbuf)

(***************************************************************************)
(* The values encoded.  With no table (the empty heap) the argument is a   *)
(* scalar drawn from the boundary cases of every packer; otherwise the     *)
(* heap holds three tables and the argument is one of them, a marker of    *)
(* one of them, or a scalar.                                               *)
(***************************************************************************)

Fill(l, c) == [j \in 1..l |-> c]

SmallInts ==
    {-2147483647 - 1, -2147483647, -65536, -32769, -32768, -129, -128, -33, -32,
     -31, -1, 0, 1, 10, 127, 128, 255, 256, 32767, 32768, 65535, 65536, 2147483647}

Pow31 == <<0, 0, 0, 0, 128, 0, 0, 0>>
Pow32 == <<0, 0, 0, 1, 0, 0, 0, 0>>
Pow34 == <<0, 0, 0, 4, 0, 0, 0, 0>>
MaxInt64 == <<127, 255, 255, 255, 255, 255, 255, 255>>
MinInt64 == <<128, 0, 0, 0, 0, 0, 0, 0>>
MaxUint64 == Fill(8, 255)

\* int64 values; all but MaxInt64 are also float64 values (LNumber).
Int64Samples ==
    {I64(n) : n \in SmallInts}
        \cup {Pow31, <<255, 255, 255, 255, 127, 255, 255, 255>>, Pow32, MinInt64, MaxInt64}

Uint64Samples ==
    {I64(n) : n \in {0, 1, 127, 128, 255, 256, 65535, 65536, 2147483647}}
        \cup {MaxUint32, Pow32, MaxUint64}

\* 1996-02-29T10:20:30Z, the time of the repository's test, among others.
SecondsSamples ==
    {I64(0), I64(1), I64(825589230), MaxUint32, Pow32,
     <<0, 0, 0, 3, 255, 255, 255, 255>>, Pow34, I64(-1), MaxInt64, MinInt64}

NanosSamples == {0, 40, 999999999}

TimeSamples == {[s |-> s, ns |-> ns] : s \in SecondsSamples, ns \in NanosSamples}

ExtLengths == {0, 1, 2, 3, 4, 5, 8, 15, 16, 17, 127, 128, 255, 256}

ExtSamples ==
    {[x |-> 1, data |-> Fill(l, 7)] : l \in ExtLengths}
        \cup {[x |-> 255, data |-> Fill(l, 9)] : l \in {0, 1, 128}}

StringSamples ==
    {<<>>, <<107>>, <<255>>, <<195, 169>>, <<195>>, <<237, 160, 128>>,
     Fill(31, 97), Fill(32, 97), Fill(33, 255)}

ScalarArgs ==
    {LNil, LBool(TRUE), LBool(FALSE), LFunction, LUserOther,
     LF32(<<65, 40, 0, 0>>), LF64(<<64, 36, 51, 51, 51, 51, 51, 51>>),
     LUserData("F32", <<65, 40, 0, 0>>),
     LUserData("F64", <<64, 36, 51, 51, 51, 51, 51, 51>>),
     LUserData("Raw", <<97, 115, 100, 102>>),
     LUserTable("Array", NilTable), LUserTable("Map", NilTable)}
        \cup {LInt(i) : i \in Int64Samples \ {MaxInt64}}
        \cup {LUserData("Signed", i) : i \in Int64Samples}
        \cup {LUserData("int64", i) : i \in {I64(-33), I64(-32), I64(127), I64(128), MaxInt64}}
        \cup {LUserData("Unsigned", i) : i \in Uint64Samples}
        \cup {LUserData("uint64", i) : i \in {I64(127), I64(128), MaxUint64}}
        \cup {LString(x) : x \in StringSamples}
        \cup {LUserData(u, x) : u \in {"Str", "Bin", "string", "[]byte"},
                                x \in {<<107>>, <<255>>}}
        \cup {LUserTime("time.Time", t) : t \in TimeSamples}
        \cup {LUserTime(u, [s |-> s, ns |-> ns]) :
                 u \in {"Time", "Time32", "Time64", "Time96"},
                 s \in {I64(825589230), Pow34, I64(-1)}, ns \in {0, 40}}
        \cup {LUserExt(x) : x \in ExtSamples}

One == LInt(I64(1))
Two == LInt(I64(2))
KeyK == LString(<<107>>)
KeyJ == LString(<<106>>)

Plain(arr, hash) == Tbl(arr, hash, NoOverride)

\* The first table: every shape the encoder tells apart, over the three
\* tables and the number 1.
Table1Shapes ==
    {Plain(<<>>, {})}
        \cup {Plain(<<a>>, {}) : a \in {One, LTable(1), LTable(2), LTable(3), LFunction}}
        \cup {Plain(<<a, b>>, {}) : a, b \in {One, LTable(2), LTable(3)}}
        \cup {Plain(<<One, LTable(1)>>, {}), Plain(<<One, LFunction>>, {}),
              Plain(<<One>>, {<<KeyK, LTable(2)>>})}
        \cup {Plain(<<>>, {<<KeyK, a>>}) :
                 a \in {One, LTable(1), LTable(2), LTable(3), LFunction}}
        \cup {Plain(<<>>, {<<KeyK, a>>, <<KeyJ, b>>}) :
                 a \in {One, LTable(2)}, b \in {One, Two}}
        \cup {Plain(<<>>, {<<a, One>>}) : a \in {LTable(1), LTable(2), LBool(TRUE)}}
        \cup {Plain(<<>>, {<<KeyK, One>>, <<LBool(TRUE), Two>>})}
        \cup {Tbl(<<>>, {}, Returns(a)) : a \in {One, LTable(2), LFunction}}
        \cup {Tbl(<<>>, {}, ReturnsNew(<<a>>)) : a \in {One, LTable(1), LTable(2)}}

\* The second and third table: what the first is encoded along with.
Contexts ==
    {<<Plain(<<>>, {}), Plain(<<>>, {})>>,
     <<Plain(<<LTable(1)>>, {}), Plain(<<>>, {})>>,
     <<Plain(<<LTable(3)>>, {}), Plain(<<>>, {})>>,
     <<Plain(<<>>, {}), Plain(<<One>>, {})>>,
     <<Tbl(<<>>, {}, Returns(One)), Plain(<<One>>, {})>>,
     <<Tbl(<<>>, {}, Returns(One)), Plain(<<One, One>>, {})>>,
     <<Tbl(<<>>, {}, Returns(One)), Plain(<<>>, {<<KeyK, One>>})>>,
     <<Tbl(<<>>, {}, Returns(KeyK)), Plain(<<>>, {<<KeyK, One>>})>>,
     <<Tbl(<<>>, {}, Returns(LTable(3))), Tbl(<<>>, {}, Returns(One))>>,
     <<Tbl(<<>>, {}, Returns(LTable(3))), Plain(<<One>>, {})>>}

Heaps == {<<>>} \cup {<<t1, c[1], c[2]>> : t1 \in Table1Shapes, c \in Contexts}

\* The tables that exist before the first call.
Roots == {1, 2, 3}

Args(h) ==
    IF h = <<>> THEN ScalarArgs
    ELSE {LTable(id) : id \in Roots}
            \cup {LUserTable("Array", 1), LUserTable("Map", 1), LUserTable("Array", 3)}
            \cup {One, KeyK}

Init ==
    /\ heap \in Heaps
    /\ arg = LNil
    /\ pc = "idle"
    /\ cur = LNil
    /\ buf = <<>>
    /\ stack = <<>>
    /\ dupe = {}
    /\ ret = <<>>
    /\ err = ""
    /\ prev = <<>>

Next ==
    \/ \E a \in Args(heap) : MsgEncode(a)
    \/ LmOverride
    \/ LmScalar
    \/ LmUnencodable
    \/ LmEncodeArray
    \/ LmEncodeMap
    \/ ArrayNext
    \/ ArrayReturn
    \/ MapNext
    \/ MapReturn

Spec == Init /\ [][Next]_vars

(***************************************************************************)
(* What the claims are stated with.                                        *)
(***************************************************************************)

Done == pc \in {"returned", "raised"}

\* The outcome of the call in progress and of the call before it.
Outcome == [pc |-> pc, ret |-> ret, err |-> err]

PrevOutcome == [pc |-> prev[1].pc, ret |-> prev[1].ret, err |-> prev[1].err]

TwoCalls == prev # <<>> /\ Done

\* The depth-first traversal of a value, as the events that can end a call:
\* a container being reached, an unencodable value being reached.  A map
\* yields one traversal per order of its entries.  fuel bounds the depth.
Reached(id) == [ev |-> "reg", n |-> id, m |-> ""]
Unenc(msg) == [ev |-> "bad", n |-> 0, m |-> msg]

RECURSIVE Orders(_)
Orders(S) ==
    IF S = {} THEN {<<>>}
    ELSE UNION {{<<e[1], e[2]>> \o o : o \in Orders(S \ {e})} : e \in S}

EntryOrders(t) ==
    {t.arr \o o1 \o o2 :
        o1 \in Orders(StrEntries(t.hash)), o2 \in Orders(t.hash \ StrEntries(t.hash))}

RECURSIVE Travs(_, _, _)
RECURSIVE TravsAll(_, _, _)
Travs(h, v, fuel) ==
    IF fuel = 0 THEN {<<>>}
    ELSE LET ov == GetMetaField(h, v) IN
         IF ov.k = "value" THEN Travs(h, ov.r, fuel - 1)
         ELSE IF ov.k = "new" THEN TravsAll(h, ov.e, fuel - 1)
         ELSE IF IsUnencodable(v) THEN {<<Unenc(EncodeError(v))>>}
         ELSE IF IsScalar(v) THEN {<<>>}
         ELSE IF IsArray(h, v)
              THEN {<<Reached(TableOf(v))>> \o s :
                       s \in TravsAll(h, SubSeq(h[TableOf(v)].arr, 1, ArrayLen(h, v)), fuel - 1)}
         ELSE UNION {{<<Reached(TableOf(v))>> \o s : s \in TravsAll(h, o, fuel - 1)} :
                        o \in EntryOrders(h[TableOf(v)])}

TravsAll(h, vals, fuel) ==
    IF vals = <<>> THEN {<<>>}
    ELSE {a \o b : a \in Travs(h, Head(vals), fuel), b \in TravsAll(h, Tail(vals), fuel)}

TravFuel == 2 * Cardinality(Roots) + 2

\* The places of a traversal where the call must fail, and the error there.
Failures(s) ==
    {i \in 1..Len(s) : s[i].ev = "bad" \/ \E j \in 1..(i - 1) : s[j] = s[i]}

Repeats(s) == \E i, j \in 1..Len(s) : i < j /\ s[i].ev = "reg" /\ s[i] = s[j]

FirstError(s) ==
    IF Failures(s) = {} THEN ""
    ELSE LET i == CHOOSE x \in Failures(s) : \A y \in Failures(s) : x <= y
         IN  IF s[i].ev = "bad" THEN s[i].m ELSE CycleError

\* The tables a value leads to, through array slots, keys, values and
\* override results.
Refs(h, v) ==
    IF v.k = "table" THEN {v.id}
    ELSE IF v.k = "userdata" /\ v.u \in {"Array", "Map"} /\ v.id # NilTable THEN {v.id}
    ELSE {}

Children(h, id) ==
    LET t == h[id] IN
    UNION ({Refs(h, t.arr[i]) : i \in 1..Len(t.arr)}
           \cup {Refs(h, e[1]) \cup Refs(h, e[2]) : e \in t.hash}
           \cup {IF t.mp.k = "value" THEN Refs(h, t.mp.r)
                 ELSE IF t.mp.k = "new"
                      THEN UNION {Refs(h, t.mp.e[i]) : i \in 1..Len(t.mp.e)}
                 ELSE {}})

RECURSIVE Closure(_, _, _)
Closure(h, S, n) ==
    IF n = 0 THEN S
    ELSE Closure(h, S \cup UNION {Children(h, id) : id \in S}, n - 1)

Tree(h, v) == Closure(h, Refs(h, v), Len(h))

NoOverrideIn(h, v) == \A id \in Tree(h, v) : h[id].mp.k = "none"

\* The end of a value's substitution chain of fixed results, if it is
\* reached in n steps.
Unresolved == [k |-> "unresolved"]

RECURSIVE Final(_, _, _)
Final(h, v, n) ==
    LET ov == GetMetaField(h, v) IN
    IF ov.k = "none" THEN v
    ELSE IF ov.k = "new" \/ n = 0 THEN Unresolved
    ELSE Final(h, ov.r, n - 1)

Fin(h, v) == Final(h, v, Cardinality(Roots))

(***************************************************************************)
(* The claims.                                                             *)
(***************************************************************************)

\* C1: within one call no container is entered twice; a call that returns
\* met every container of its traversal once only, and a call that ends in
\* "object contained cycle" had a traversal that reaches a container twice.
C1_CycleGuard ==
    /\ \A i, j \in 1..Len(stack) : i # j => stack[i].tbl # stack[j].tbl
    /\ \A i \in 1..Len(stack) : pc # "idle" => stack[i].tbl \in dupe
    /\ pc = "returned" => \E s \in Travs(heap, arg, TravFuel) : ~Repeats(s)
    /\ pc = "raised" /\ err = CycleError =>
          \E s \in Travs(heap, arg, TravFuel) : Repeats(s)
    /\ pc = "raised" /\ (\A s \in Travs(heap, arg, TravFuel) : ~Repeats(s)) =>
          err # CycleError

\* The first table holds the second in both its array slots (shared, not
\* cyclic) and the call ended in the cycle error.
C1_Witness ==
    /\ pc = "raised"
    /\ err = CycleError
    /\ arg = LTable(1)
    /\ heap[1].arr = <<LTable(2), LTable(2)>>
    /\ heap[2] = Plain(<<>>, {})

\* C2: a call ends by pushing one complete buffer or by raising the error
\* of the first failure of the depth-first traversal; nothing is pushed
\* before the end, and nothing at all when an error is raised.
C2_AllOrNothing ==
    /\ pc # "returned" => ret = <<>>
    /\ pc = "returned" =>
          /\ Len(ret) = 1
          /\ ret[1] = buf
          /\ err = ""
          /\ stack = <<>>
          /\ \E s \in Travs(heap, arg, TravFuel) : FirstError(s) = ""
    /\ pc = "raised" =>
          /\ err # ""
          /\ \E s \in Travs(heap, arg, TravFuel) : FirstError(s) = err

\* An error was raised inside a map after bytes had been appended to the
\* map's scratch buffer and to the output buffer of the array around it.
C2_Witness ==
    /\ pc = "raised"
    /\ ret = <<>>
    /\ Len(stack) = 2
    /\ stack[1].kind = "array" /\ stack[1].buf # <<>>
    /\ stack[2].kind = "map" /\ stack[2].mapbuf # <<>>

\* C3 as stated: two calls on a value with no override anywhere in its
\* tree end the same way, with the same bytes.
C3_Deterministic ==
    TwoCalls /\ prev[1].arg = arg /\ NoOverrideIn(heap, arg) => Outcome = PrevOutcome

\* C3 as amended: the same, for a value in whose tree no table holds two or
\* more entries outside its array part.
SingleEntryMaps(h, v) == \A id \in Tree(h, v) : Cardinality(h[id].hash) <= 1

C3_DeterministicSingleEntry ==
    TwoCalls /\ prev[1].arg = arg /\ NoOverrideIn(heap, arg) /\ SingleEntryMaps(heap, arg)
        => Outcome = PrevOutcome

\* A one-entry map holding a one-entry map was encoded twice, to the same
\* seven bytes.
C3_Witness ==
    /\ TwoCalls
    /\ prev[1].arg = arg
    /\ arg = LTable(1)
    /\ heap[1] = Plain(<<>>, {<<KeyK, LTable(3)>>})
    /\ heap[3] = Plain(<<>>, {<<KeyK, One>>})
    /\ ret = << <<129, 161, 107, 129, 161, 107, 1>> >>
    /\ prev[1].ret = ret

\* C4: nil, true and false encode as the one byte 0xc0, 0xc3, 0xc2.
C4_NilTrueFalse ==
    pc = "returned" =>
        /\ arg = LNil => ret = << <<192>> >>
        /\ arg = LBool(TRUE) => ret = << <<195>> >>
        /\ arg = LBool(FALSE) => ret = << <<194>> >>

\* C5: a value whose substitution chain ends in w encodes as w does: at top
\* level, and inside a table whose elements, keys and values are replaced
\* by the ends of their chains.
Substituted(h, id) ==
    LET t == h[id] IN
    [arr |-> [i \in 1..Len(t.arr) |-> Fin(h, t.arr[i])],
     hash |-> {<<Fin(h, e[1]), Fin(h, e[2])>> : e \in t.hash},
     mp |-> NoOverride]

Parts(t) == {t.arr[i] : i \in 1..Len(t.arr)} \cup UNION {{e[1], e[2]} : e \in t.hash}

SubstitutionOf(h, a, b) ==
    \/ GetMetaField(h, a).k # "none" /\ Fin(h, a) = b
    \/ /\ a.k = "table" /\ b.k = "table" /\ a # b
       /\ h[a.id].mp.k = "none"
       /\ Cardinality(h[a.id].hash) <= 1
       /\ \E x \in Parts(h[a.id]) : GetMetaField(h, x).k # "none"
       /\ \A x \in Parts(h[a.id]) : Fin(h, x).k \notin {"table", "unresolved"}
       /\ h[b.id] = Substituted(h, a.id)

C5_OverrideTransparent ==
    TwoCalls /\ SubstitutionOf(heap, prev[1].arg, arg) => Outcome = PrevOutcome

\* The second table's override returns the third, whose override returns 1;
\* the second table and the number 1 were both encoded, as the byte 0x01.
C5_Witness ==
    /\ TwoCalls
    /\ prev[1].arg = LTable(2)
    /\ heap[2].mp = Returns(LTable(3))
    /\ heap[3].mp = Returns(One)
    /\ arg = One
    /\ ret = << <<1>> >>
    /\ prev[1].ret = ret

\* C6: an Array marker of a table of n scalar elements encodes as the
\* array header declaring n followed by the n elements in index order.
RECURSIVE EncodeAll(_, _)
EncodeAll(vals, b) ==
    IF vals = <<>> THEN b ELSE EncodeAll(Tail(vals), EncodeScalar(Head(vals), b))

C6_ArrayMarker ==
    /\ pc = "returned"
    /\ arg.k = "userdata" /\ arg.u = "Array" /\ arg.id # NilTable
    /\ \A i \in 1..Len(heap[arg.id].arr) : IsScalar(heap[arg.id].arr[i])
    => LET elems == heap[arg.id].arr
       IN  ret = <<EncodeAll(elems, <<144 + Len(elems)>>)>>

\* C7: the signed-integer packer emits the minimal-width form.
InRange(lo, i, hi) == SLe(lo, i) /\ SLe(i, hi)

MinimalSigned(i) ==
    IF InRange(I64(-32), i, I64(127)) THEN <<i[8]>>
    ELSE IF InRange(I64(-128), i, I64(127)) THEN <<208, i[8]>>
    ELSE IF InRange(I64(-32768), i, I64(32767)) THEN <<209, i[7], i[8]>>
    ELSE IF InRange(I64(-2147483647 - 1), i, I64(2147483647))
         THEN <<210, i[5], i[6], i[7], i[8]>>
    ELSE <<211>> \o i

IsSignedArg(a) ==
    \/ a.k = "number" /\ a.m = "int"
    \/ a.k = "userdata" /\ a.u \in {"Signed", "int64"}

C7_SignedMinimalWidth ==
    pc = "returned" /\ IsSignedArg(arg) => ret = <<MinimalSigned(arg.v)>>

\* C8: an unmarked timestamp takes the 96-bit form iff its seconds are
\* outside [0, 2^34), else the 64-bit form iff its nanoseconds are not 0,
\* else the 32-bit form.
Fits34(sec) == SLe(I64(0), sec) /\ SLt(sec, Pow34)

TimeForm(t) ==
    IF ~Fits34(t.s)
    THEN <<199, 12, 255>> \o BE(t.ns, 4) \o t.s
    ELSE IF t.ns # 0
    THEN <<215, 255, t.ns \div 4194304, (t.ns \div 16384) % 256, (t.ns \div 64) % 256,
           (t.ns % 64) * 4 + t.s[4], t.s[5], t.s[6], t.s[7], t.s[8]>>
    ELSE <<214, 255, t.s[5], t.s[6], t.s[7], t.s[8]>>

IsTimeArg(a) == a.k = "userdata" /\ a.u \in {"Time", "time.Time"}

C9_RecursionBounded ==
    /\ Len(stack) <= Cardinality(Roots)
    /\ pc # "overflow"

\* C10: the extension layout: a fixed marker for 1, 2, 4, 8, 16 bytes of
\* payload, else 0xc7/0xc8/0xc9 and the length in 8/16/32 bits, then the
\* type code and the payload.
ExtLayout(x) ==
    LET l == Len(x.data) IN
    (IF l = 1 THEN <<212>>
     ELSE IF l = 2 THEN <<213>>
     ELSE IF l = 4 THEN <<214>>
     ELSE IF l = 8 THEN <<215>>
     ELSE IF l = 16 THEN <<216>>
     ELSE IF l <= 255 THEN <<199, l>>
     ELSE IF l <= 65535 THEN <<200>> \o BE(l, 2)
     ELSE <<201>> \o BE(l, 4))
    \o <<x.x>> \o x.data

C10_ExtLayout ==
    pc = "returned" /\ arg.k = "userdata" /\ arg.u = "Ext" => ret = <<ExtLayout(arg.ext)>>

====
